---- MODULE Spec2Model ----
(***************************************************************************)
(* Crawl coordination of the office-listing scraper: the pagination loop,  *)
(* the filter / dedup / freshness pipeline, the navigation retry policy    *)
(* and the run checkpoint, for the five runScraper variants of the         *)
(* repository:                                                             *)
(*   "office_agent"  src/office_agent.cjs                                  *)
(*   "single_modes"  src/unnamed/part_001, lines 1-248                     *)
(*   "multi_site"    src/unnamed/part_001, lines 249-790                   *)
(*   "retrying"      src/unnamed/part_002, lines 1-452                     *)
(*   "server"        src/unnamed/part_002, lines 453-1669                  *)
(* and of the crawler ("crawlee") of src/propertyfinder_office_scraper.cjs,  *)
(* lines 147-424.                                                          *)
(* Time is counted in minutes since 2024-01-01T00:00 (UTC).                *)
(***************************************************************************)
EXTENDS Integers, Sequences, FiniteSets, TLC

\* ------------------------------------------------------------------ bounds
\* raw listing elements one page can hold
MaxItems == 2
\* cap on the page counter of the loops the code leaves unbounded
PageCap == 4
\* start URLs tried, of the four of START_URLS
NumSites == 2

\* --------------------------------------------------------- program constants
MIN_AREA_SQFT == 1500
MONTHS_TO_LOOKBACK == 2
MAX_RETRIES == 3
maxAttempts == 3
InitialMaxPages == 15
UpdateMaxPages == 3
\* safeNavigate's backoff: Math.floor(Math.random() * 3000) + 5000 * 2^attempts
BackoffBase == 5000
JitterRange == 3000

Variants == {"office_agent", "single_modes", "multi_site", "retrying", "server"}
\* the variants whose runScraper walks START_URLS
MultiSite == {"multi_site", "server"}
\* the variants that have maxPages and the composite dedup key
ModeCeiling == {"single_modes", "retrying"}

\* ------------------------------------------------------------ Date (JS, UTC)
IsLeap(y) == (y % 4 = 0 /\ y % 100 # 0) \/ y % 400 = 0
\* m is 0-based, as Date.getMonth()
DaysInMonth(y, m) ==
    IF m = 1 THEN (IF IsLeap(y) THEN 29 ELSE 28)
    ELSE IF m \in {3, 5, 8, 10} THEN 30 ELSE 31
\* days from 2024-01-01 to y-01-01 (valid 1901..2099)
DaysBeforeYear(y) == 365 * (y - 2024) + ((y - 2021) \div 4)
RECURSIVE DaysBeforeMonth(_, _)
DaysBeforeMonth(y, m) ==
    IF m = 0 THEN 0 ELSE DaysBeforeMonth(y, m - 1) + DaysInMonth(y, m - 1)
\* ECMAScript MakeDay: month and date may lie outside their ranges
MakeDay(y, m, d) ==
    LET ym == y + (m \div 12)
        mn == m % 12
    IN DaysBeforeYear(ym) + DaysBeforeMonth(ym, mn) + d - 1
RECURSIVE YearFromDay(_, _)
YearFromDay(day, y) ==
    IF day < DaysBeforeYear(y) THEN YearFromDay(day, y - 1)
    ELSE IF day >= DaysBeforeYear(y + 1) THEN YearFromDay(day, y + 1)
    ELSE y
RECURSIVE MonthFromDay(_, _, _)
MonthFromDay(dayInYear, y, m) ==
    IF dayInYear < DaysBeforeMonth(y, m + 1) THEN m
    ELSE MonthFromDay(dayInYear, y, m + 1)
Day(t) == t \div 1440
TimeWithinDay(t) == t % 1440
getFullYear(t) == YearFromDay(Day(t), 2024)
getMonth(t) == MonthFromDay(Day(t) - DaysBeforeYear(getFullYear(t)), getFullYear(t), 0)
getDate(t) ==
    Day(t) - DaysBeforeYear(getFullYear(t)) - DaysBeforeMonth(getFullYear(t), getMonth(t)) + 1
\* a variant of setMonth that counts a month as 30 days
setMonthOfThirtyDays(t, m) == t - (getMonth(t) - m) * 30 * 1440
setMonth(t, m) == MakeDay(getFullYear(t), m, getDate(t)) * 1440 + TimeWithinDay(t)
setFullYear(t, y) == MakeDay(y, getMonth(t), getDate(t)) * 1440 + TimeWithinDay(t)
setDate(t, d) == MakeDay(getFullYear(t), getMonth(t), d) * 1440 + TimeWithinDay(t)
MakeTime(y, m, d, hh, mm) == MakeDay(y, m, d) * 1440 + hh * 60 + mm

\* a Date that is null (parseRelativeTime's null, an Invalid Date)
NoDate == -1

\* ------------------------------------------------------------ listed strings
\* The text of a listing's date, by what the two parsers make of it:
\*   k = "none"  no text (null)          k = "bad"  text neither parser reads
\*   k = "rel"   "<n> <unit>s ago"       k = "abs"  an absolute date (n = its time)
NoListed == [k |-> "none", n |-> 0, unit |-> ""]
Rel(n, unit) == [k |-> "rel", n |-> n, unit |-> unit]

parseRelativeTime(relativeStr, baseDate) ==
    IF relativeStr.k # "rel" THEN NoDate
    ELSE LET value == relativeStr.n
             unit == relativeStr.unit
         IN CASE unit = "minute" -> baseDate - value
              [] unit = "hour" -> baseDate - 60 * value
              [] unit = "day" -> setDate(baseDate, getDate(baseDate) - value)
              [] unit = "week" -> setDate(baseDate, getDate(baseDate) - value * 7)
              [] unit = "month" -> setMonth(baseDate, getMonth(baseDate) - value)
              [] unit = "year" -> setFullYear(baseDate, getFullYear(baseDate) - value)
              [] OTHER -> NoDate

\* "Parse date": relative first, then new Date(cs)
listedDate(item, now) ==
    IF item.listed.k = "none" THEN NoDate
    ELSE LET rel == parseRelativeTime(item.listed, now)
         IN IF rel # NoDate THEN rel
            ELSE IF item.listed.k = "abs" THEN item.listed.n ELSE NoDate

\* ---------------------------------------------------------------- candidates
\* url "" is a null url, area 0 a null area
Item(title, price, area, listed, url) ==
    [title |-> title, location |-> "Dubai", price |-> price, area |-> area,
     listed |-> listed, url |-> url]

Candidates ==
    { Item("A", "p1", 2000, Rel(5, "hour"), "u1"),
      Item("A", "p2", 2000, Rel(5, "hour"), "u1"),
      Item("T", "p1", 2000, Rel(3, "day"), "u2"),
      Item("E", "p1", 2000, Rel(5, "hour"), ""),
      Item("D", "p1", 1200, Rel(5, "hour"), "u3"),
      Item("N", "p1", 0, Rel(5, "hour"), "u4") }

\* the moment the process starts in the model: 2025-05-31T12:00
Now0 == MakeTime(2025, 4, 31, 12, 0)
\* the lastRun a checkpoint file of an earlier run holds: one day before
PriorLastRun == Now0 - 1440
\* lastRun.json does not exist
NoFile == -1
\* lastRun.json holds text that JSON.parse rejects
CorruptFile == -2
\* lastRun.json holds a lastRun that new Date() makes an Invalid Date of
InvalidDateFile == -3
\* the requests one server process handles
MaxRequests == 2
\* the overview pages the crawler is shown a "Next" link on, plus one
CrawlPages == 2
\* the header line and one line of results.csv, as split(',') reads them
CsvHeader == <<"title", "location", "price", "area", "description", "listed", "url">>
ListedText(l) ==
    IF l.k = "rel" THEN ToString(l.n) \o " " \o l.unit \o "s ago"
    ELSE IF l.k = "none" THEN "" ELSE l.unit
CsvRow(r) ==
    <<r.title, r.location, r.price, ToString(r.area), r.description,
      ListedText(r.listed), r.url>>
\* a results.csv that holds the records an earlier run emitted
PriorCsv ==
    <<CsvHeader,
      CsvRow([title |-> "A", location |-> "Dubai", price |-> "p1", area |-> 2000,
              listed |-> Rel(5, "hour"), url |-> "u1", description |-> "text"])>>
NoCsv == <<>>
\* a results.csv whose lines are not records: each has fewer than 7 fields
GarbledCsv == <<<<"<html>">>, <<"x", "y">>>>

\* --------------------------------------------------------------------- state
VARIABLES
    variant,           \* which runScraper this process runs
    isInitial,         \* MODE === 'initial' / runScraper(initial)
    TEST_PAGINATION,   \* process.env.TEST_PAGINATION === 'true'
    bucketName,        \* process.env.BUCKET_NAME is set
    clock,             \* what new Date() returns
    lastRun,           \* lastRun.json: NoFile or the lastRun it holds
    thresholdDate,     \* computed when the module is loaded
    bucketCsv,         \* results.csv in the bucket
    localCsv,          \* results.csv on disk
    pc,                \* position of the run
    site,              \* index into START_URLS
    currentPage,       \* the pagination loop's counter
    rawLeft,           \* items of the page still to process
    admittedCount,     \* items of the page that passed the area filter and the dedup
    pushedCount,       \* items of the page that were pushed to results
    anyNew,            \* the loop's flag of the same name
    pageFoundResults,  \* the site showed listing elements on some page
    successful,        \* a site was successful
    seenKeys,          \* seenUrls / seenKeys
    results,           \* the records pushed, in order
    navLog,            \* <<site, page>> of every listing page requested in this attempt
    stop,              \* why the pagination of the current site ended
    emptyAt,           \* <<site, page>> of the page of the current site found with no
                       \* listing element
    failedAt,          \* <<site, page>> of the last navigation of the current site that
                       \* failed, until a page loads
    emptyBefore,       \* the smallest number of a page found empty on an earlier site of
                       \* this attempt, 0 if there is none
    attempts,          \* safeNavigate: failed attempts / launch loop: failed launches
    gotoCalls,         \* safeNavigate: page.goto calls of the current call
    otherFailure,      \* safeNavigate: an attempt failed before page.goto was called
    clearCalls,        \* safeNavigate: times the cookies and the cache were cleared
    blockedPending,    \* safeNavigate: a bot detection was met and page.goto was not
                       \* called since
    rotatedAfterBlock, \* safeNavigate: page.goto was called again after a bot detection
    backoffs,          \* safeNavigate: the backoff times waited in the current call
    retryCount,        \* runScraper (retrying): failed attempts
    browser,           \* a launched browser is open
    detailOpen,        \* detail pages opened and not closed
    detailFetched,     \* the candidates whose detail page was requested
    detailQueue,       \* crawler: the urls of the DETAIL requests still queued
    emitted,           \* the records of the last write of results.csv
    presorted,         \* the array that write was made of, before it was sorted
    csvWritten,        \* this attempt wrote results.csv
    uploadFailed,      \* the upload of results.csv failed in this attempt
    metaWritten,       \* this attempt wrote lastRun.json
    lastRunAtStart,    \* lastRun.json when the current run started
    requests,          \* runs started in this process
    pc2,               \* server: position of the run a second request has started
    results2,          \* server: the records that second run has collected
    sigterm,           \* server: SIGTERM was received
    pass,              \* a function applied on its own: 0 not at all, 1 and 2 the first
                       \* and the second application, 3 both are done
    feed,              \* the candidates it is applied to
    fedCount,          \* how many of them the current application has taken
    kept1,             \* the candidates the first application let through
    kept2,             \* the candidates the second application let through
    earlier,           \* the threshold of the first application
    relative,          \* the listed text given to parseRelativeTime
    baseDate,          \* the base date given to parseRelativeTime
    parsed,            \* what parseRelativeTime returned
    request,           \* API server: the request being handled, NoRequest if none
    responses,         \* API server: the status codes written for that request
    exitStatus         \* "running", or what the caller is told: "ok" / "error"

probe == <<pass, feed, fedCount, kept1, kept2, earlier, relative, baseDate, parsed>>
api == <<request, responses>>
config == <<variant, isInitial, TEST_PAGINATION, bucketName, lastRunAtStart, thresholdDate,
            requests, pc2, results2, sigterm, probe, api>>
files == <<lastRun, bucketCsv, localCsv, csvWritten, uploadFailed, metaWritten, emitted,
          presorted>>
pageState == <<rawLeft, admittedCount, pushedCount, anyNew>>
siteState == <<site, pageFoundResults, successful>>
navState == <<attempts, gotoCalls, otherFailure, clearCalls, blockedPending,
              rotatedAfterBlock, backoffs>>
collected == <<seenKeys, results, detailOpen, detailFetched, detailQueue>>
trail == <<navLog, stop, emptyAt, failedAt, emptyBefore>>
vars == <<config, files, pageState, siteState, navState, collected, trail,
          clock, pc, currentPage, retryCount, browser, exitStatus>>

None == <<0, 0>>
\* no request is being handled
NoRequest == [method |-> "", path |-> "", query |-> ""]

\* new Date("2025-01-01")
CUTOFF_DATE == MakeTime(2025, 0, 1, 0, 0)
\* thresholdDate as the module computes it when it is loaded
Lookback(now) == setMonth(now, getMonth(now) - MONTHS_TO_LOOKBACK)
\* the file holds a lastRun that is a date
ValidFile(file) == file \notin {NoFile, CorruptFile, InvalidDateFile}
\* JSON.parse throws while the module is loaded, outside any try
LoadThrows(v, initial, file) == v \in ModeCeiling /\ ~initial /\ file = CorruptFile
ThresholdAtLoad(v, initial, file, now) ==
    IF v = "crawlee" THEN CUTOFF_DATE
    ELSE IF v \in ModeCeiling
    THEN IF ~initial /\ file # NoFile
         THEN (IF ValidFile(file) THEN file ELSE NoDate)
         ELSE Lookback(now)
    ELSE IF ValidFile(file) THEN file ELSE Lookback(now)

\* The process after its module was loaded, for the given variants, contents
\* of lastRun.json and settings of TEST_PAGINATION and BUCKET_NAME.
Loaded(variants, lastRunFiles, tests, buckets) ==
    /\ variant \in variants
    /\ isInitial \in BOOLEAN
    /\ TEST_PAGINATION \in tests
    /\ bucketName \in buckets
    /\ clock = Now0
    /\ lastRun \in lastRunFiles
    /\ lastRunAtStart = lastRun
    /\ requests = 1
    /\ pc2 = "none" /\ results2 = <<>> /\ sigterm = FALSE
    /\ thresholdDate = ThresholdAtLoad(variant, isInitial, lastRun, clock)
    /\ bucketCsv \in (IF bucketName /\ variant \in ModeCeiling
                      THEN {NoCsv, PriorCsv, GarbledCsv} ELSE {NoCsv})
    /\ localCsv = NoCsv
    /\ pc = IF LoadThrows(variant, isInitial, lastRun) THEN "done"
            ELSE IF variant = "crawlee" THEN "crawl"
            ELSE IF variant = "api_server" THEN "listening" ELSE "launch"
    /\ request = NoRequest /\ responses = <<>>
    /\ site = 1
    /\ currentPage = 1
    /\ rawLeft = 0 /\ admittedCount = 0 /\ pushedCount = 0 /\ anyNew = FALSE
    /\ pageFoundResults = FALSE /\ successful = FALSE
    /\ seenKeys = {} /\ results = <<>> /\ detailOpen = 0
    /\ detailFetched = {} /\ detailQueue = <<>> /\ emitted = <<>>
    /\ presorted = <<>>
    /\ navLog = <<>> /\ stop = "none" /\ emptyAt = None /\ failedAt = None
    /\ emptyBefore = 0
    /\ attempts = 0 /\ gotoCalls = 0 /\ otherFailure = FALSE
    /\ clearCalls = 0 /\ blockedPending = FALSE /\ rotatedAfterBlock = FALSE
    /\ backoffs = <<>>
    /\ retryCount = 0
    /\ browser = FALSE
    /\ csvWritten = FALSE /\ uploadFailed = FALSE /\ metaWritten = FALSE
    /\ exitStatus = IF LoadThrows(variant, isInitial, lastRun) THEN "error" ELSE "running"

\* no function is applied on its own
NoProbe ==
    /\ pass = 0 /\ feed = <<>> /\ fedCount = 0 /\ kept1 = <<>> /\ kept2 = <<>>
    /\ earlier = NoDate /\ relative = NoListed /\ baseDate = NoDate /\ parsed = NoDate
ProcessStart(variants, lastRunFiles, tests, buckets) ==
    Loaded(variants, lastRunFiles, tests, buckets) /\ NoProbe

\* the crawler reads neither a mode nor lastRun.json
CrawlerStart == ProcessStart({"crawlee"}, {NoFile}, {FALSE}, {FALSE}) /\ isInitial

Init ==
    \/ ProcessStart(Variants, {NoFile, PriorLastRun}, BOOLEAN, BOOLEAN)
    \/ CrawlerStart
\* ------------------------------------------------------------------- helpers
RECURSIVE join(_, _)
join(fields, sep) ==
    IF fields = <<>> THEN ""
    ELSE IF Len(fields) = 1 THEN fields[1]
    ELSE fields[1] \o sep \o join(Tail(fields), sep)

\* nothing is recorded of a safeNavigate call
NoNavTrail ==
    /\ clearCalls' = 0 /\ blockedPending' = FALSE /\ rotatedAfterBlock' = FALSE
    /\ backoffs' = <<>>
\* the locals of one call of runScraper, as its declarations leave them
FreshLocals ==
    /\ site' = 1 /\ currentPage' = 1
    /\ rawLeft' = 0 /\ admittedCount' = 0 /\ pushedCount' = 0 /\ anyNew' = FALSE
    /\ pageFoundResults' = FALSE /\ successful' = FALSE
    /\ seenKeys' = {} /\ results' = <<>>
    /\ detailFetched' = {} /\ detailQueue' = <<>>
    /\ navLog' = <<>> /\ stop' = "none" /\ emptyAt' = None /\ failedAt' = None
    /\ emptyBefore' = 0
    /\ attempts' = 0 /\ gotoCalls' = 0 /\ otherFailure' = FALSE
    /\ NoNavTrail

\* ------------------------------------------------------------------- actions
\* puppeteer.launch
Launch ==
    /\ pc = "launch"
    /\ \E launched \in BOOLEAN :
         IF launched
         THEN /\ browser' = TRUE
              /\ attempts' = 0
              /\ pc' = IF variant \in ModeCeiling THEN "seed" ELSE "page"
         ELSE /\ browser' = browser
              /\ IF variant = "server"
                 THEN \* "Try multiple times to launch the browser"
                      /\ attempts' = attempts + 1
                      /\ pc' = IF attempts + 1 >= maxAttempts THEN "thrown" ELSE "launch"
                 ELSE attempts' = attempts /\ pc' = "thrown"
    /\ UNCHANGED <<config, files, pageState, siteState, gotoCalls, otherFailure, clearCalls,
                   blockedPending, rotatedAfterBlock, backoffs, collected,
                   trail, clock, currentPage, retryCount, exitStatus>>

\* An exception leaves runScraper's body: the catch and finally blocks that
\* surround it, and what the caller of runScraper makes of it.
\* a variant of GivesUp that allows one attempt more
GivesUpLate(count) == count > MAX_RETRIES
\* if (retryCount >= MAX_RETRIES) throw error
GivesUp(count) == count >= MAX_RETRIES
Unwind ==
    /\ pc = "thrown"
    /\ CASE variant \in {"office_agent", "multi_site", "server"} ->
              \* catch logs the error, finally closes the browser, runScraper resolves
              /\ browser' = FALSE /\ detailOpen' = 0
              /\ pc' = "done" /\ exitStatus' = "ok"
              /\ UNCHANGED <<pageState, siteState, navState, seenKeys, results,
                             detailFetched, detailQueue, trail, currentPage, retryCount>>
         [] variant = "single_modes" ->
              \* nothing catches: the rejection ends the process
              /\ pc' = "done" /\ exitStatus' = "error"
              /\ UNCHANGED <<pageState, siteState, navState, collected, trail,
                             currentPage, retryCount, browser>>
         [] variant = "retrying" ->
              /\ browser' = FALSE /\ detailOpen' = 0
              /\ retryCount' = retryCount + 1
              /\ IF GivesUp(retryCount + 1)
                 THEN /\ pc' = "done" /\ exitStatus' = "error"
                      /\ UNCHANGED <<pageState, siteState, navState, seenKeys, results,
                                     detailFetched, detailQueue, trail, currentPage>>
                 ELSE \* runScraperWithRetries is called again
                      /\ pc' = "launch" /\ exitStatus' = exitStatus
                      /\ FreshLocals
    /\ IF variant = "retrying" /\ ~GivesUp(retryCount + 1)
       THEN csvWritten' = FALSE /\ uploadFailed' = FALSE
       ELSE UNCHANGED <<csvWritten, uploadFailed>>
    /\ UNCHANGED <<config, lastRun, bucketCsv, localCsv, metaWritten, emitted, presorted, clock>>

\* a variant of SeededKeys that takes the short lines too
SeededKeysOfAnyLine(csv) == { join(csv[i], "|") : i \in 2..Len(csv) }
\* downloadExistingCSV: results.csv of the bucket seeds seenKeys
SeededKeys(csv) ==
    { join(SubSeq(csv[i], 1, 7), "|") : i \in { j \in 2..Len(csv) : Len(csv[j]) >= 7 } }
downloadExistingCSV ==
    /\ pc = "seed"
    /\ pc' = "page"
    /\ IF ~bucketName
       THEN UNCHANGED <<localCsv, seenKeys>>
       ELSE \E downloaded \in BOOLEAN :
              IF downloaded /\ bucketCsv # NoCsv
              THEN /\ localCsv' = bucketCsv
                   /\ seenKeys' = seenKeys \cup SeededKeys(bucketCsv)
              ELSE UNCHANGED <<localCsv, seenKeys>>
    /\ UNCHANGED <<config, lastRun, bucketCsv, csvWritten, uploadFailed, metaWritten,
                   emitted, presorted, pageState, siteState, navState, results, detailOpen,
                   detailFetched, detailQueue, trail, clock,
                   currentPage, retryCount, browser, exitStatus>>
\* a variant of NextPage that leaves a page number out
NextPageSkipping(page) == page + 2
\* currentPage++
NextPage(page) == page + 1
\* where a break of the pagination loop leads
AfterLoop == IF variant \in MultiSite THEN "endsite" ELSE "save"

\* the loop's own ceiling on currentPage (MAX_PAGES is not set)
maxPages == IF isInitial THEN InitialMaxPages ELSE UpdateMaxPages
PageLimitReached(v, initial, page) ==
    CASE v \in ModeCeiling -> page > maxPages
      [] v = "server" -> initial /\ page > InitialMaxPages
      [] OTHER -> FALSE

\* The head of the pagination loop and the request for the listing page.
Navigate ==
    /\ pc = "page"
    /\ IF PageLimitReached(variant, isInitial, currentPage)
       THEN /\ stop' = "page-limit"
            /\ pc' = AfterLoop
            /\ UNCHANGED <<navLog, failedAt, currentPage, navState>>
       ELSE /\ currentPage <= PageCap \/ variant \in ModeCeiling \/ (variant = "server" /\ isInitial)
            /\ navLog' = Append(navLog, <<site, currentPage>>)
            /\ IF variant = "server"
               THEN \* safeNavigate is entered
                    /\ attempts' = 0 /\ gotoCalls' = 0 /\ otherFailure' = FALSE
                    /\ NoNavTrail
                    /\ pc' = "nav"
                    /\ UNCHANGED <<stop, failedAt, currentPage>>
               ELSE /\ UNCHANGED navState
                    /\ \E loaded \in BOOLEAN :
                         IF loaded
                         THEN pc' = "check" /\ UNCHANGED <<stop, failedAt, currentPage>>
                         ELSE /\ failedAt' = <<site, currentPage>>
                              /\ CASE variant = "multi_site" ->
                                        \* catch (navigationError): break
                                        /\ stop' = "page-load-failure"
                                        /\ pc' = "endsite"
                                        /\ UNCHANGED currentPage
                                   [] variant = "retrying" /\ currentPage > 1 ->
                                        \* "Skip this page and try the next one": continue
                                        /\ currentPage' = NextPage(currentPage)
                                        /\ pc' = "page"
                                        /\ UNCHANGED stop
                                   [] OTHER ->
                                        \* the error leaves the loop uncaught
                                        /\ stop' = "page-load-failure"
                                        /\ pc' = "thrown"
                                        /\ UNCHANGED currentPage
    /\ UNCHANGED <<config, files, pageState, siteState, collected, emptyAt, emptyBefore,
                   clock, retryCount, browser, exitStatus>>

\* what one attempt of safeNavigate can meet
NavOutcomes == {"ok", "error", "noresponse", "status", "blocked", "cdp"}
\* a variant of AttemptsExhausted that gives up one attempt early
AttemptsExhaustedEarly(n) == n >= maxAttempts - 1
\* attempts >= maxAttempts, after attempts++
AttemptsExhausted(n) == n >= maxAttempts
\* a variant of ClearsCookies that never clears
ClearsCookiesNever(n) == FALSE
\* "Clear cookies between attempts if not first attempt": attempts > 0
ClearsCookies(n) == n > 0
\* the values Math.floor(Math.random() * 3000) is drawn from
Jitters == {0, JitterRange - 1}
RECURSIVE Pow2(_)
Pow2(n) == IF n = 0 THEN 1 ELSE 2 * Pow2(n - 1)
\* a variant of backoffTime that does not grow with the attempts
backoffTimeFlat(jitter, n) == jitter + BackoffBase
\* Math.floor(Math.random() * 3000) + 5000 * Math.pow(2, attempts)
backoffTime(jitter, n) == jitter + BackoffBase * Pow2(n)
\* One iteration of safeNavigate's while loop.
safeNavigate ==
    /\ pc = "nav"
    /\ \E outcome \in NavOutcomes, jitter \in Jitters :
         LET cleared == ClearsCookies(attempts) /\ outcome # "cdp"
             called == outcome # "cdp"
             returns == outcome = "ok" \/ AttemptsExhausted(attempts + 1)
         IN
         \* the CDP session is only opened from the second attempt on
         /\ outcome = "cdp" => ClearsCookies(attempts)
         /\ gotoCalls' = IF called THEN gotoCalls + 1 ELSE gotoCalls
         /\ otherFailure' = (otherFailure \/ outcome = "cdp")
         /\ clearCalls' = IF cleared THEN clearCalls + 1 ELSE clearCalls
         /\ rotatedAfterBlock' = (~returns /\ (rotatedAfterBlock \/ (called /\ blockedPending)))
         /\ blockedPending' = (~returns /\ IF called THEN outcome = "blocked" ELSE blockedPending)
         /\ IF outcome = "ok"
            THEN \* return true
                 /\ jitter = 0
                 /\ pc' = "check"
                 /\ backoffs' = <<>>
                 /\ UNCHANGED <<attempts, stop, failedAt>>
            ELSE /\ attempts' = attempts + 1
                 /\ IF AttemptsExhausted(attempts + 1)
                    THEN \* return false; the caller breaks
                         /\ jitter = 0
                         /\ stop' = "page-load-failure"
                         /\ failedAt' = <<site, currentPage>>
                         /\ backoffs' = <<>>
                         /\ pc' = "endsite"
                    ELSE \* setTimeout(resolve, backoffTime)
                         /\ backoffs' = Append(backoffs, backoffTime(jitter, attempts + 1))
                         /\ pc' = "nav"
                         /\ UNCHANGED <<stop, failedAt>>
    /\ UNCHANGED <<config, files, pageState, siteState, collected, navLog, emptyAt,
                   emptyBefore, clock, currentPage, retryCount, browser, exitStatus>>

\* a variant of listingsExist that accepts a page without any element
listingsExistAlways(elementsCount) == elementsCount >= 0
\* listingsExist = elementsCount > 0; waitForSelector resolves under the same condition
listingsExist(elementsCount) == elementsCount > 0
\* The search for listing elements on the loaded page.
CheckListings ==
    /\ pc = "check"
    /\ \E detected \in BOOLEAN, raw \in 0..MaxItems, extracted \in BOOLEAN :
         IF ~detected
         THEN \* an error other than the timeout while looking for the elements: break
              /\ stop' = "listing-error"
              /\ pc' = AfterLoop
              /\ UNCHANGED <<pageState, pageFoundResults, emptyAt, currentPage>>
         ELSE /\ emptyAt' = IF raw = 0 THEN <<site, currentPage>> ELSE emptyAt
              /\ IF ~listingsExist(raw)
                 THEN \* "No listings found; ending pagination."
                      /\ stop' = "end-of-results"
                      /\ pc' = AfterLoop
                      /\ UNCHANGED <<pageState, pageFoundResults, currentPage>>
                 ELSE /\ pageFoundResults' = TRUE
                      /\ IF TEST_PAGINATION
                         THEN \* "Skip actual scraping in test mode": continue
                              /\ currentPage' = NextPage(currentPage)
                              /\ pc' = "page"
                              /\ UNCHANGED <<pageState, stop>>
                         ELSE IF variant \in MultiSite /\ ~extracted
                         THEN \* page.evaluate rejects: the error leaves the loop
                              \* for catch (siteError)
                              /\ stop' = "site-error"
                              /\ pc' = "sitecatch"
                              /\ UNCHANGED <<pageState, currentPage>>
                         ELSE /\ rawLeft' = raw
                              /\ admittedCount' = 0 /\ pushedCount' = 0 /\ anyNew' = FALSE
                              /\ pc' = IF raw = 0 THEN "decide" ELSE "items"
                              /\ UNCHANGED <<stop, currentPage>>
    /\ failedAt' = None
    \* the locals of the safeNavigate call that loaded the page are gone
    /\ attempts' = 0 /\ gotoCalls' = 0 /\ otherFailure' = FALSE
    /\ NoNavTrail
    /\ UNCHANGED <<config, files, site, successful, collected, navLog, emptyBefore,
                   clock, retryCount, browser, exitStatus>>

\* the key the dedup set holds for an item
KeyOf(v, item) ==
    IF v \in ModeCeiling
    THEN join(<<item.title, item.location, ToString(item.area), item.price,
                ListedText(item.listed), item.url>>, "|")
    ELSE item.url
\* a variant of seenHas that finds no key
seenHasNever(seen, key) == FALSE
\* seenUrls.has(item.url) / seenKeys.has(key)
seenHas(seen, key) == key \in seen
\* a variant of AreaOk that lets every candidate pass
AreaOkAny(item) == TRUE
\* if (!item.area || item.area < MIN_AREA_SQFT) continue
AreaOk(item) == item.area # 0 /\ item.area >= MIN_AREA_SQFT
\* a variant of Fresh that takes what is not newer than the threshold
FreshUntil(item, now, threshold) ==
    /\ listedDate(item, now) # NoDate
    /\ threshold # NoDate
    /\ listedDate(item, now) <= threshold
\* listedDate && listedDate >= thresholdDate
Fresh(item, now, threshold) ==
    /\ listedDate(item, now) # NoDate
    \* a comparison with an Invalid Date is false
    /\ threshold # NoDate
    /\ listedDate(item, now) >= threshold
\* the record results.push(item) stores
Record(v, item, description, now) ==
    [title |-> item.title, location |-> item.location, price |-> item.price,
     area |-> item.area, listed |-> item.listed, url |-> item.url,
     description |-> description,
     listedDate |-> IF v \in MultiSite THEN listedDate(item, now) ELSE NoDate]
\* what item.description is after a failed visit of the detail page
FailedDescription(v) == IF v = "server" THEN "Failed to load details" ELSE "Failed to load"

\* One iteration of "for (const item of listings)".
ProcessItem ==
    /\ pc = "items"
    /\ rawLeft > 0
    /\ rawLeft' = rawLeft - 1
    /\ \E item \in Candidates, detailOk \in BOOLEAN :
         LET key == KeyOf(variant, item)
             nextpc == IF rawLeft = 1 THEN "decide" ELSE "items"
         IN IF ~AreaOk(item) \/ seenHas(seenKeys, key)
            THEN /\ pc' = nextpc
                 /\ UNCHANGED <<admittedCount, pushedCount, anyNew, collected>>
            ELSE /\ seenKeys' = seenKeys \cup {key}
                 /\ admittedCount' = admittedCount + 1
                 /\ IF ~Fresh(item, clock, thresholdDate)
                    THEN /\ pc' = nextpc
                         /\ UNCHANGED <<pushedCount, anyNew, results, detailOpen,
                                        detailFetched>>
                    ELSE \* "Visit detail page"
                         /\ detailFetched' = IF item.url = "" THEN detailFetched
                                             ELSE detailFetched \cup {item}
                         /\ IF item.url = "" \/ detailOk
                            THEN /\ results' = Append(results,
                                        Record(variant, item,
                                               IF item.url = "" THEN "" ELSE "text", clock))
                                 /\ pushedCount' = pushedCount + 1
                                 /\ anyNew' = TRUE
                                 /\ pc' = nextpc
                                 /\ UNCHANGED detailOpen
                            ELSE IF variant \in MultiSite
                            THEN \* catch (detailErr)
                                 /\ results' = Append(results,
                                        Record(variant, item, FailedDescription(variant), clock))
                                 /\ pushedCount' = pushedCount + 1
                                 /\ anyNew' = TRUE
                                 /\ detailOpen' = IF variant = "multi_site" THEN detailOpen + 1
                                                  ELSE detailOpen
                                 /\ pc' = nextpc
                            ELSE \* the error of detailPage.goto leaves the loop, and
                                 \* detailPage.close() is not reached
                                 /\ pc' = "thrown"
                                 /\ detailOpen' = detailOpen + 1
                                 /\ UNCHANGED <<pushedCount, anyNew, results>>
    /\ UNCHANGED <<config, files, siteState, navState, trail, detailQueue,
                   clock, currentPage, retryCount, browser, exitStatus>>

\* a variant of StopOnNoNew that never breaks for want of new records
StopOnNoNewNever(v, initial, test) == FALSE
\* "Stop if no new/in-threshold items found"
StopOnNoNew(v, initial, test) ==
    CASE v = "office_agent" -> ~test
      [] v \in ModeCeiling -> ~test /\ ~initial
      [] OTHER -> TRUE
Decide ==
    /\ pc = "decide"
    /\ IF ~anyNew /\ StopOnNoNew(variant, isInitial, TEST_PAGINATION)
       THEN /\ stop' = "no-new-content"
            /\ pc' = AfterLoop
            /\ UNCHANGED <<currentPage, pageState>>
       ELSE \* the next iteration: its counters are declared anew
            /\ currentPage' = NextPage(currentPage)
            /\ pc' = "page"
            /\ rawLeft' = 0 /\ admittedCount' = 0 /\ pushedCount' = 0 /\ anyNew' = FALSE
            /\ UNCHANGED stop
    /\ UNCHANGED <<config, files, siteState, navState, collected, navLog, emptyAt,
                   failedAt, emptyBefore, clock, retryCount, browser, exitStatus>>

\* a variant of SiteSucceeded that counts no site as successful
SiteSucceededNever(succ, found) == FALSE
\* "if (pageFoundResults) successful = true"
SiteSucceeded(succ, found) == IF found THEN TRUE ELSE succ
\* The end of one iteration of "for (const START_URL of START_URLS)".
EndSite ==
    /\ pc = "endsite"
    /\ LET ok == SiteSucceeded(successful, pageFoundResults)
       IN /\ successful' = ok
          /\ site' = site + 1
          /\ IF site + 1 > NumSites \/ (ok /\ ~TEST_PAGINATION)
             THEN /\ pc' = "save"
                  /\ UNCHANGED <<pageFoundResults, currentPage, stop, emptyAt, failedAt,
                                 emptyBefore>>
             ELSE \* the next START_URL, from its first page
                  /\ pc' = "page"
                  /\ pageFoundResults' = FALSE
                  /\ currentPage' = 1
                  /\ stop' = "none" /\ emptyAt' = None /\ failedAt' = None
                  /\ emptyBefore' = IF emptyAt = None THEN emptyBefore
                                    ELSE IF emptyBefore = 0 \/ emptyAt[2] < emptyBefore
                                         THEN emptyAt[2] ELSE emptyBefore
    /\ UNCHANGED <<config, files, pageState, navState, collected, navLog,
                   clock, retryCount, browser, exitStatus>>
\* catch (siteError): the error of a site is logged, its page is closed in the
\* finally block and the loop over START_URLS goes on; the statements behind
\* the pagination loop, "if (pageFoundResults) successful = true", were skipped.
SiteCatch ==
    /\ pc = "sitecatch"
    /\ site' = site + 1
    /\ IF site + 1 > NumSites \/ (successful /\ ~TEST_PAGINATION)
       THEN /\ pc' = "save"
            /\ UNCHANGED <<pageFoundResults, currentPage, stop, emptyAt, failedAt,
                           emptyBefore>>
       ELSE /\ pc' = "page"
            /\ pageFoundResults' = FALSE
            /\ currentPage' = 1
            /\ stop' = "none" /\ emptyAt' = None /\ failedAt' = None
            /\ emptyBefore' = IF emptyAt = None THEN emptyBefore
                              ELSE IF emptyBefore = 0 \/ emptyAt[2] < emptyBefore
                                   THEN emptyAt[2] ELSE emptyBefore
    /\ UNCHANGED <<config, files, pageState, successful, navState, collected, navLog,
                   clock, retryCount, browser, exitStatus>>
\* a variant of InsertByDate that puts a record before those of its own date
RECURSIVE InsertByDateBeforeEqual(_, _)
InsertByDateBeforeEqual(sorted, r) ==
    IF sorted = <<>> THEN <<r>>
    ELSE IF Head(sorted).listedDate > r.listedDate
         THEN <<Head(sorted)>> \o InsertByDateBeforeEqual(Tail(sorted), r)
         ELSE <<r>> \o sorted
\* results.sort((a, b) => dateB - dateA): a stable sort, newest first
RECURSIVE InsertByDate(_, _)
InsertByDate(sorted, r) ==
    IF sorted = <<>> THEN <<r>>
    ELSE IF Head(sorted).listedDate >= r.listedDate
         THEN <<Head(sorted)>> \o InsertByDate(Tail(sorted), r)
         ELSE <<r>> \o sorted
RECURSIVE SortNewestFirst(_)
SortNewestFirst(rs) ==
    IF rs = <<>> THEN <<>>
    ELSE InsertByDate(SortNewestFirst(SubSeq(rs, 1, Len(rs) - 1)), rs[Len(rs)])

\* results.csv as csv-writer writes it
CsvOf(rs) == <<CsvHeader>> \o [i \in 1..Len(rs) |-> CsvRow(rs[i])]
\* results.csv after fs.appendFileSync(csvFile, toWrite)
AppendedCsv(csv, rs) ==
    (IF csv = NoCsv THEN <<CsvHeader>> ELSE csv) \o [i \in 1..Len(rs) |-> CsvRow(rs[i])]
\* a variant of AppendRowsThrows in which every field is a string
AppendRowsNeverThrows(rs) == FALSE
\* (r[f] || '').replace(...) is applied to every field; area is a number
AppendRowsThrows(rs) == \E i \in 1..Len(rs) : rs[i].area # 0
\* a variant of SavesResults that saves in test mode too
SavesResultsInTestToo(v, test, rs) == TRUE
\* a variant of SavesResults that saves an empty result set too
SavesResultsAlways(v, test, rs) == ~test
\* the run has something to save
SavesResults(v, test, rs) ==
    IF v \in MultiSite THEN ~test /\ rs # <<>> ELSE ~test

\* "Save results only if not in test mode": the write of results.csv.
SaveResults ==
    /\ pc = "save"
    /\ browser' = IF variant = "single_modes" THEN FALSE ELSE browser
    /\ IF ~SavesResults(variant, TEST_PAGINATION, results)
       THEN /\ pc' = "close"
            /\ UNCHANGED <<localCsv, csvWritten, results, emitted, presorted>>
       ELSE IF variant \in ModeCeiling
       THEN IF AppendRowsThrows(results)
            THEN /\ pc' = "thrown"
                 /\ UNCHANGED <<localCsv, csvWritten, results, emitted, presorted>>
            ELSE \* appendFileSync: the header if the file is new, then the rows
                 /\ localCsv' = AppendedCsv(localCsv, results)
                 /\ csvWritten' = TRUE
                 /\ pc' = "upload"
                 /\ UNCHANGED <<results, emitted, presorted>>
       ELSE \E written \in BOOLEAN :
              /\ results' = IF variant \in MultiSite THEN SortNewestFirst(results)
                            ELSE results
              /\ IF written
                 THEN /\ localCsv' = CsvOf(results')
                      /\ emitted' = results'
                      /\ presorted' = results
                      /\ csvWritten' = TRUE
                      /\ pc' = "upload"
                 ELSE /\ pc' = "thrown"
                      /\ UNCHANGED <<localCsv, csvWritten, emitted, presorted>>
    /\ UNCHANGED <<config, lastRun, bucketCsv, uploadFailed, metaWritten, pageState,
                   siteState, navState, seenKeys, detailOpen, detailFetched, detailQueue,
                   trail, clock, currentPage, retryCount, exitStatus>>

\* an upload failure is swallowed by uploadToGCS and thrown by bucket.upload
UploadFailureThrows(v) == v \in ModeCeiling
\* The upload of results.csv to the bucket.
UploadResults ==
    /\ pc = "upload"
    /\ IF ~bucketName
       THEN /\ pc' = "meta"
            /\ UNCHANGED <<bucketCsv, uploadFailed>>
       ELSE \E uploaded \in BOOLEAN :
              IF uploaded
              THEN /\ bucketCsv' = IF variant \in ModeCeiling THEN localCsv ELSE bucketCsv
                   /\ pc' = "meta"
                   /\ UNCHANGED uploadFailed
              ELSE /\ uploadFailed' = TRUE
                   /\ pc' = IF UploadFailureThrows(variant) THEN "thrown" ELSE "meta"
                   /\ UNCHANGED bucketCsv
    /\ UNCHANGED <<config, lastRun, localCsv, csvWritten, metaWritten, emitted, presorted, pageState,
                   siteState, navState, collected, trail, clock, currentPage, retryCount,
                   browser, exitStatus>>

\* fs.writeFileSync(META_FILE, { lastRun: new Date() })
WriteMeta ==
    /\ pc = "meta"
    /\ clock' = clock + 1
    /\ lastRun' = clock'
    /\ metaWritten' = TRUE
    /\ pc' = "close"
    /\ UNCHANGED <<config, bucketCsv, localCsv, csvWritten, uploadFailed, emitted, presorted,
                   pageState, siteState, navState, collected, trail, currentPage,
                   retryCount, browser, exitStatus>>

\* runScraper returns: the finally block, and what the caller reports
Finish ==
    /\ pc = "close"
    /\ browser' = FALSE
    /\ detailOpen' = 0
    /\ exitStatus' = "ok"
    /\ pc' = "done"
    /\ UNCHANGED <<config, files, pageState, siteState, navState, seenKeys, results,
                   detailFetched, detailQueue, trail, clock, currentPage, retryCount>>

\* The HTTP handler of the server is called again: runScraper(mode === 'initial').
NewRequest ==
    /\ variant = "server"
    /\ pc = "done"
    /\ requests < MaxRequests
    \* server.close(): no connection is accepted after SIGTERM
    /\ ~sigterm
    /\ requests' = requests + 1
    /\ isInitial' \in BOOLEAN
    /\ lastRunAtStart' = lastRun
    /\ pc' = "launch"
    /\ exitStatus' = "running"
    /\ FreshLocals
    /\ csvWritten' = FALSE /\ uploadFailed' = FALSE /\ metaWritten' = FALSE
    /\ UNCHANGED <<api, variant, TEST_PAGINATION, bucketName, thresholdDate, lastRun, bucketCsv,
                   localCsv, emitted, presorted, detailOpen, clock, retryCount, browser, pc2, results2,
                   sigterm, probe>>

\* the steps of a run of runScraper
ScraperStep ==
    \/ Launch
    \/ Unwind
    \/ downloadExistingCSV
    \/ Navigate
    \/ safeNavigate
    \/ CheckListings
    \/ ProcessItem
    \/ Decide
    \/ EndSite
    \/ SiteCatch
    \/ SaveResults
    \/ UploadResults
    \/ WriteMeta
    \/ Finish

\* ------------------------------------------------------------------ crawler
\* the listings the overview pages show the crawler
CrawlCandidates == { c \in Candidates : c.price = "p1" }
\* what the detail page shows as the listing's date
DetailListed == {Rel(5, "hour"), Rel(6, "month"), NoListed}

\* crawler.run([START_URL]): the first overview page is requested and the
\* requestHandler waits for its listing elements.
crawlerRun ==
    /\ pc = "crawl"
    /\ browser' = TRUE
    /\ navLog' = Append(navLog, <<1, 1>>)
    /\ \E raw \in 0..MaxItems :
         /\ rawLeft' = raw
         \* without a listing element waitForSelector times out and the request fails
         /\ pc' = IF raw = 0 THEN "queue" ELSE "overview"
    /\ UNCHANGED <<config, files, admittedCount, pushedCount, anyNew, siteState, navState,
                   collected, stop, emptyAt, failedAt, emptyBefore, clock, currentPage,
                   retryCount, exitStatus>>

\* One iteration of "for (const item of listings)" of the requestHandler.
overviewItem ==
    /\ pc = "overview"
    /\ rawLeft > 0
    /\ rawLeft' = rawLeft - 1
    /\ pc' = IF rawLeft = 1 THEN "next" ELSE "overview"
    /\ \E item \in CrawlCandidates :
         IF ~AreaOk(item)
         THEN UNCHANGED <<results, seenKeys, detailQueue>>
         ELSE /\ results' = Append(results, Record(variant, item, "", clock))
              \* crawler.addRequests: the queue drops a url it already holds
              /\ IF item.url # "" /\ item.url \notin seenKeys
                 THEN /\ detailQueue' = Append(detailQueue, item.url)
                      /\ seenKeys' = seenKeys \cup {item.url}
                 ELSE UNCHANGED <<seenKeys, detailQueue>>
    /\ UNCHANGED <<config, files, admittedCount, pushedCount, anyNew, siteState, navState,
                   detailOpen, detailFetched, trail, clock, currentPage, retryCount,
                   browser, exitStatus>>

\* "Pagination: look for the Next button", and the request for the next page.
overviewNext ==
    /\ pc = "next"
    /\ \E hasNextPage \in { h \in BOOLEAN : h => currentPage < CrawlPages } :
         IF hasNextPage
         THEN /\ currentPage' = NextPage(currentPage)
              /\ navLog' = Append(navLog, <<1, NextPage(currentPage)>>)
              /\ \E raw \in 0..MaxItems :
                   /\ rawLeft' = raw
                   /\ pc' = IF raw = 0 THEN "next" ELSE "overview"
         ELSE \* the requestHandler returns
              /\ pc' = "queue"
              /\ UNCHANGED <<currentPage, navLog, rawLeft>>
    /\ UNCHANGED <<config, files, admittedCount, pushedCount, anyNew, siteState, navState,
                   collected, stop, emptyAt, failedAt, emptyBefore, clock, retryCount,
                   browser, exitStatus>>

\* results.findIndex(item => item.url === request.url)
RECURSIVE findIndex(_, _, _)
findIndex(rs, url, i) ==
    IF i > Len(rs) THEN 0
    ELSE IF rs[i].url = url THEN i ELSE findIndex(rs, url, i + 1)

\* The requestHandler for a request labelled DETAIL.
detailHandler ==
    /\ pc = "queue"
    /\ detailQueue # <<>>
    /\ detailQueue' = Tail(detailQueue)
    /\ LET url == Head(detailQueue)
           idx == findIndex(results, url, 1)
       IN /\ \E listed \in DetailListed, described \in BOOLEAN :
               results' = IF idx = 0 THEN results
                          ELSE [results EXCEPT ![idx] =
                                   [@ EXCEPT !.description = IF described THEN "text" ELSE "",
                                             !.listed = listed,
                                             !.listedDate = parseRelativeTime(listed, clock)]]
          /\ detailFetched' = IF idx = 0 THEN detailFetched
                              ELSE detailFetched \cup
                                     {Item(results[idx].title, results[idx].price,
                                           results[idx].area, results[idx].listed, url)}
    /\ UNCHANGED <<config, files, pageState, siteState, navState, seenKeys, detailOpen,
                   trail, clock, pc, currentPage, retryCount, browser, exitStatus>>

\* item.absoluteListedDate && new Date(item.absoluteListedDate) >= CUTOFF_DATE
OnOrAfterCutoff(r) == r.listedDate # NoDate /\ r.listedDate >= CUTOFF_DATE
Dated(r) == r.listedDate # NoDate
Undated(r) == r.listedDate = NoDate
Reverse(seq) == [i \in 1..Len(seq) |-> seq[Len(seq) + 1 - i]]
\* the fields of the crawler's results.csv
CrawlCsvHeader ==
    <<"title", "location", "price", "area", "description", "listed",
      "absoluteListedDate", "dateText", "url">>
CrawlCsvRow(r) ==
    <<r.title, r.location, r.price, ToString(r.area), r.description, ListedText(r.listed),
      IF r.listedDate = NoDate THEN "" ELSE ToString(r.listedDate), "", r.url>>
CrawlCsvOf(rs) == <<CrawlCsvHeader>> \o [i \in 1..Len(rs) |-> CrawlCsvRow(rs[i])]

\* After crawler.run: filter on the listed date, sort, write results.csv.
crawlerSave ==
    /\ pc = "queue"
    /\ detailQueue = <<>>
    /\ LET filtered == SelectSeq(results, OnOrAfterCutoff)
           \* "Saving all valid listings instead."
           fallback == filtered = <<>>
           filteredResults == IF fallback THEN results ELSE filtered
       IN \* the comparator orders no two records without a date: their order is
          \* left to the engine
          /\ \E undated \in {SelectSeq(filteredResults, Undated),
                               Reverse(SelectSeq(filteredResults, Undated))} :
               emitted' = SortNewestFirst(SelectSeq(filteredResults, Dated)) \o undated
          /\ presorted' = filteredResults
          \* filteredResults is the array results itself in the fallback
          /\ results' = IF fallback THEN emitted' ELSE results
    /\ localCsv' = CrawlCsvOf(emitted')
    /\ csvWritten' = TRUE
    /\ browser' = FALSE
    /\ exitStatus' = "ok"
    /\ pc' = "done"
    /\ UNCHANGED <<config, lastRun, bucketCsv, uploadFailed, metaWritten, pageState,
                   siteState, navState, seenKeys, detailOpen, detailFetched, detailQueue,
                   trail, clock, currentPage, retryCount>>

CrawlerStep ==
    \/ crawlerRun
    \/ overviewItem
    \/ overviewNext
    \/ detailHandler
    \/ crawlerSave

Next == ScraperStep \/ CrawlerStep

Spec == Init /\ [][Next]_vars

\* A server process that handles several requests, one after the other. It
\* is taken up where its first run has ended: that run found one new listing
\* on page 1 and no listing on page 2, wrote results.csv and lastRun.json, and
\* the handler has answered.
ServedOnce ==
    /\ variant = "server"
    /\ isInitial \in BOOLEAN
    /\ TEST_PAGINATION = FALSE
    /\ bucketName = FALSE
    /\ lastRunAtStart \in {NoFile, PriorLastRun}
    /\ requests = 1
    /\ pc2 = "none" /\ results2 = <<>> /\ sigterm = FALSE
    /\ thresholdDate = ThresholdAtLoad(variant, isInitial, lastRunAtStart, Now0)
    /\ clock = Now0 + 1
    /\ lastRun = clock
    /\ bucketCsv = NoCsv
    /\ results = <<Record(variant, Item("A", "p1", 2000, Rel(5, "hour"), "u1"), "text", Now0)>>
    /\ localCsv = CsvOf(results)
    /\ pc = "done"
    /\ site = 2
    /\ currentPage = 2
    /\ rawLeft = 0 /\ admittedCount = 0 /\ pushedCount = 0 /\ anyNew = FALSE
    /\ pageFoundResults = TRUE /\ successful = TRUE
    /\ seenKeys = {"u1"} /\ detailOpen = 0
    /\ detailFetched = {Item("A", "p1", 2000, Rel(5, "hour"), "u1")}
    /\ detailQueue = <<>> /\ emitted = results /\ presorted = results
    /\ navLog = <<<<1, 1>>, <<1, 2>>>> /\ stop = "end-of-results"
    /\ emptyAt = <<1, 2>> /\ failedAt = None /\ emptyBefore = 0
    /\ attempts = 0 /\ gotoCalls = 0 /\ otherFailure = FALSE
    /\ clearCalls = 0 /\ blockedPending = FALSE /\ rotatedAfterBlock = FALSE
    /\ backoffs = <<>>
    /\ retryCount = 0
    /\ browser = FALSE
    /\ csvWritten = TRUE /\ uploadFailed = FALSE /\ metaWritten = TRUE
    /\ exitStatus = "ok"
    /\ NoProbe
    /\ request = NoRequest /\ responses = <<>>
InitServer == ServedOnce
ServerStep ==
    \/ Launch
    \/ Unwind
    \/ Navigate
    \/ safeNavigate
    \/ CheckListings
    \/ ProcessItem
    \/ Decide
    \/ EndSite
    \/ SiteCatch
    \/ SaveResults
    \/ UploadResults
    \/ WriteMeta
    \/ Finish
    \/ NewRequest
SpecServer == InitServer /\ [][ServerStep]_vars

\* Processes started on a lastRun.json that holds no date.
InitCheckpoint == ProcessStart(Variants, {CorruptFile, InvalidDateFile}, {FALSE}, {FALSE})
SpecCheckpoint == InitCheckpoint /\ [][ScraperStep]_vars

\* A server process whose HTTP handler is called a second time, and which is
\* sent SIGTERM. The handler awaits runScraper without any guard, so the run of
\* the second request proceeds between the steps of the first. Of the second
\* run the model keeps the steps that touch what both runs share, results.csv
\* and lastRun.json.
\* req.on('end'): runScraper(mode === 'initial') is called for the second request
Request2 ==
    /\ variant = "server"
    /\ pc2 = "none"
    /\ ~sigterm
    /\ requests < MaxRequests
    /\ requests' = requests + 1
    /\ pc2' = "launch"
    /\ UNCHANGED <<api, variant, isInitial, TEST_PAGINATION, bucketName, lastRunAtStart,
                   thresholdDate, probe, results2, sigterm, files, pageState, siteState, navState,
                   collected, trail, clock, pc, currentPage, retryCount, browser,
                   exitStatus>>
\* what the second run can have collected when its site loop ends
Results2 ==
    {<<>>, <<Record("server", Item("T", "p1", 2000, Rel(3, "day"), "u2"), "text", Now0)>>}
\* the launch and the site loop of the second run
Run2Scrape ==
    /\ pc2 = "launch"
    /\ \E failed \in BOOLEAN :
         IF failed
         THEN \* catch (error): logged, runScraper resolves and the handler answers
              /\ pc2' = "answered"
              /\ UNCHANGED results2
         ELSE /\ results2' \in Results2
              /\ pc2' = "collected"
    /\ UNCHANGED <<api, variant, isInitial, TEST_PAGINATION, bucketName, lastRunAtStart,
                   thresholdDate, probe, requests, sigterm, files, pageState, siteState, navState,
                   collected, trail, clock, pc, currentPage, retryCount, browser,
                   exitStatus>>
\* csvWriter.writeRecords(results) of the second run
Run2Save ==
    /\ pc2 = "collected"
    /\ IF results2 = <<>>
       THEN \* "No results found across all sites."
            /\ pc2' = "answered"
            /\ UNCHANGED <<localCsv, emitted, presorted>>
       ELSE /\ localCsv' = CsvOf(SortNewestFirst(results2))
            /\ emitted' = SortNewestFirst(results2)
            /\ presorted' = results2
            /\ pc2' = "saved"
    /\ UNCHANGED <<api, variant, isInitial, TEST_PAGINATION, bucketName, lastRunAtStart,
                   thresholdDate, probe, requests, results2, sigterm, lastRun, bucketCsv,
                   csvWritten, uploadFailed, metaWritten, pageState, siteState, navState,
                   collected, trail, clock, pc, currentPage, retryCount, browser,
                   exitStatus>>
\* fs.writeFileSync(META_FILE, ...) of the second run, and its answer
Run2Meta ==
    /\ pc2 = "saved"
    /\ clock' = clock + 1
    /\ lastRun' = clock'
    /\ pc2' = "answered"
    /\ UNCHANGED <<api, variant, isInitial, TEST_PAGINATION, bucketName, lastRunAtStart,
                   thresholdDate, probe, requests, results2, sigterm, bucketCsv, localCsv,
                   csvWritten, uploadFailed, metaWritten, emitted, presorted, pageState, siteState,
                   navState, collected, trail, pc, currentPage, retryCount, browser,
                   exitStatus>>
\* process.on('SIGTERM'): server.close() and nothing else
Sigterm ==
    /\ variant = "server"
    /\ ~sigterm
    /\ sigterm' = TRUE
    /\ UNCHANGED <<api, variant, isInitial, TEST_PAGINATION, bucketName, lastRunAtStart,
                   thresholdDate, probe, requests, pc2, results2, files, pageState, siteState,
                   navState, collected, trail, clock, pc, currentPage, retryCount, browser,
                   exitStatus>>
\* the mode of a request without a body is 'daily'
InitHandlers == ProcessStart({"server"}, {NoFile}, {FALSE}, {FALSE}) /\ ~isInitial
HandlersStep ==
    \/ Launch
    \/ Unwind
    \/ Navigate
    \/ safeNavigate
    \/ CheckListings
    \/ ProcessItem
    \/ Decide
    \/ EndSite
    \/ SiteCatch
    \/ SaveResults
    \/ UploadResults
    \/ WriteMeta
    \/ Finish
    \/ Request2
    \/ Run2Scrape
    \/ Run2Save
    \/ Run2Meta
    \/ Sigterm
SpecHandlers == InitHandlers /\ [][HandlersStep]_vars

\* ------------------------------------------------- the deduplicator on its own
\* The dedup lines of the item loop, "if (seen.has(key)) continue;
\* seen.add(key)", applied twice in succession to a sequence of admissible
\* candidates, the set being kept between the two passes.
\* the longest sequence fed
MaxFeed == 3
\* the admissible candidates, and a second one without a url
DedupCandidates ==
    { c \in Candidates : AreaOk(c) } \cup {Item("F", "p1", 2000, Rel(5, "hour"), "")}
RECURSIVE SeqsUpTo(_, _)
SeqsUpTo(S, n) ==
    IF n = 0 THEN {<<>>}
    ELSE LET shorter == SeqsUpTo(S, n - 1)
         IN shorter \cup { Append(q, x) : q \in { r \in shorter : Len(r) = n - 1 }, x \in S }
InitDedup ==
    /\ Loaded(Variants, {NoFile}, {FALSE}, {FALSE})
    /\ ~isInitial
    /\ pass = 1
    /\ feed \in SeqsUpTo(DedupCandidates, MaxFeed)
    /\ fedCount = 0 /\ kept1 = <<>> /\ kept2 = <<>>
    /\ earlier = NoDate /\ relative = NoListed /\ baseDate = NoDate /\ parsed = NoDate
dedupItem ==
    /\ pass \in {1, 2}
    /\ fedCount < Len(feed)
    /\ fedCount' = fedCount + 1
    /\ LET item == feed[fedCount + 1]
           key == KeyOf(variant, item)
       IN IF seenHas(seenKeys, key)
          THEN UNCHANGED <<seenKeys, kept1, kept2>>
          ELSE /\ seenKeys' = seenKeys \cup {key}
               /\ kept1' = IF pass = 1 THEN Append(kept1, item) ELSE kept1
               /\ kept2' = IF pass = 2 THEN Append(kept2, item) ELSE kept2
    /\ UNCHANGED <<api, variant, isInitial, TEST_PAGINATION, bucketName, lastRunAtStart,
                   thresholdDate, requests, pc2, results2, sigterm, pass, feed, earlier,
                   relative, baseDate, parsed, files, pageState, siteState, navState, results,
                   detailOpen, detailFetched, detailQueue, trail, clock, pc, currentPage,
                   retryCount, browser, exitStatus>>
\* the sequence has been fed to its end
passEnds ==
    /\ pass \in {1, 2}
    /\ fedCount = Len(feed)
    /\ pass' = pass + 1
    /\ fedCount' = 0
    /\ UNCHANGED <<api, variant, isInitial, TEST_PAGINATION, bucketName, lastRunAtStart,
                   thresholdDate, requests, pc2, results2, sigterm, feed, kept1, kept2,
                   earlier, relative, baseDate, parsed, files, pageState, siteState, navState,
                   collected, trail, clock, pc, currentPage, retryCount, browser,
                   exitStatus>>
DedupStep == dedupItem \/ passEnds
SpecDedup == InitDedup /\ [][DedupStep]_vars

\* ------------------------------------------------ the freshness test on its own
\* The test "listedDate && listedDate >= thresholdDate" of the item loop,
\* applied to one sequence of candidates under two thresholds, the earlier
\* one first.
\* what lastRun.json can hold: a day, five hours and four days before the start
LastRuns == {PriorLastRun, Now0 - 300, Now0 - 4 * 1440}
FreshCandidates ==
    Candidates \cup {Item("U", "p1", 2000, NoListed, "u5"),
                     Item("O", "p1", 2000, Rel(3, "month"), "u6")}
InitFresh ==
    /\ Loaded({"office_agent"}, LastRuns \cup {NoFile}, {FALSE}, {FALSE})
    /\ ~isInitial
    /\ pass = 1
    /\ feed \in SeqsUpTo(FreshCandidates, MaxFeed)
    /\ fedCount = 0 /\ kept1 = <<>> /\ kept2 = <<>>
    /\ earlier \in { t \in LastRuns \cup {Lookback(Now0)} : t <= thresholdDate }
    /\ relative = NoListed /\ baseDate = NoDate /\ parsed = NoDate
freshItem ==
    /\ pass \in {1, 2}
    /\ fedCount < Len(feed)
    /\ fedCount' = fedCount + 1
    /\ LET item == feed[fedCount + 1]
           threshold == IF pass = 1 THEN earlier ELSE thresholdDate
       IN IF Fresh(item, clock, threshold)
          THEN /\ kept1' = IF pass = 1 THEN Append(kept1, item) ELSE kept1
               /\ kept2' = IF pass = 2 THEN Append(kept2, item) ELSE kept2
          ELSE UNCHANGED <<kept1, kept2>>
    /\ UNCHANGED <<api, variant, isInitial, TEST_PAGINATION, bucketName, lastRunAtStart,
                   thresholdDate, requests, pc2, results2, sigterm, pass, feed, earlier,
                   relative, baseDate, parsed, files, pageState, siteState, navState, collected,
                   trail, clock, pc, currentPage, retryCount, browser, exitStatus>>
FreshStep == freshItem \/ passEnds
SpecFresh == InitFresh /\ [][FreshStep]_vars

\* --------------------------------------------------- parseRelativeTime on its own
\* the largest count of a "<n> <unit>s ago"
MaxAgo == 3
\* base dates: the end of a month of 31 days, a leap day, the middle and the
\* first day of a month, the last minute of a year
BaseDates ==
    {Now0, MakeTime(2025, 2, 31, 10, 30), MakeTime(2024, 1, 29, 8, 0),
     MakeTime(2025, 0, 15, 0, 0), MakeTime(2025, 2, 1, 0, 5), MakeTime(2024, 11, 31, 23, 59)}
\* the units the pattern names, and one it does not
AgoUnits == {"minute", "hour", "day", "week", "month", "year"}
ListedTexts ==
    { Rel(n, unit) : n \in 1..MaxAgo, unit \in AgoUnits \cup {"second"} }
      \cup {NoListed, [k |-> "bad", n |-> 0, unit |-> "Listed recently"],
            [k |-> "abs", n |-> Now0 - 1440, unit |-> "2025-05-30T12:00"]}
InitParse ==
    /\ Loaded({"office_agent"}, {NoFile}, {FALSE}, {FALSE})
    /\ ~isInitial
    /\ pass = 1
    /\ feed = <<>> /\ fedCount = 0 /\ kept1 = <<>> /\ kept2 = <<>>
    /\ earlier = NoDate
    /\ relative \in ListedTexts
    /\ baseDate \in BaseDates
    /\ parsed = NoDate
parseListed ==
    /\ pass = 1
    /\ parsed' = parseRelativeTime(relative, baseDate)
    /\ pass' = 3
    /\ UNCHANGED <<api, variant, isInitial, TEST_PAGINATION, bucketName, lastRunAtStart,
                   thresholdDate, requests, pc2, results2, sigterm, feed, fedCount, kept1,
                   kept2, earlier, relative, baseDate, files, pageState, siteState,
                   navState, collected, trail, clock, pc, currentPage, retryCount, browser,
                   exitStatus>>
SpecParse == InitParse /\ [][parseListed]_vars

\* ------------------------------------------------------------- runs to the end
\* A run of runScraper whose steps are taken as long as one is possible: the
\* event loop resumes every pending await, so a run that can go on does go on.
InitLive == ProcessStart({"office_agent"}, {NoFile, PriorLastRun}, BOOLEAN, {FALSE})
\* The head of the loop of src/office_agent.cjs past page PageCap: the loop
\* "for (let currentPage = 1; ; currentPage++)" has no condition on the page
\* number, so the page is requested like every other. The pages past PageCap
\* are not told apart: they are numbered PageCap and not entered in navLog.
NavigateBeyond ==
    /\ variant = "office_agent"
    /\ pc = "page"
    /\ currentPage > PageCap
    /\ ~PageLimitReached(variant, isInitial, currentPage)
    /\ currentPage' = PageCap
    /\ \E loaded \in BOOLEAN :
         IF loaded
         THEN pc' = "check" /\ UNCHANGED <<stop, failedAt>>
         ELSE /\ failedAt' = <<site, PageCap>>
              /\ stop' = "page-load-failure"
              /\ pc' = "thrown"
    /\ UNCHANGED <<config, files, pageState, siteState, navState, collected, navLog,
                   emptyAt, emptyBefore, clock, retryCount, browser, exitStatus>>
\* the steps of runScraper in src/office_agent.cjs
LiveStep ==
    \/ Launch
    \/ Unwind
    \/ Navigate
    \/ NavigateBeyond
    \/ CheckListings
    \/ ProcessItem
    \/ Decide
    \/ SaveResults
    \/ UploadResults
    \/ WriteMeta
    \/ Finish
SpecLive == InitLive /\ [][LiveStep]_vars /\ WF_vars(LiveStep)

\* ------------------------------------------------------------------ API server
\* src/server.js ("api_server"): the HTTP server of the deployed service.
Methods == {"GET", "POST", "PUT", "DELETE", "HEAD"}
Paths == {"/", "/health", "/version", "/scrape", "/results"}
Queries == {"", "?probe=1"}
\* req.url: the request target, the path and the query string
UrlOf(req) == req.path \o req.query
\* a variant of StatusFor that knows no route
StatusForNoRoute(method, url) == 404
\* the status the handler writes for a method and a req.url
StatusFor(method, url) ==
    IF method = "GET" /\ (url = "/" \/ url = "/health") THEN 200
    ELSE IF method = "GET" /\ url = "/version" THEN 200
    ELSE IF method = "POST" /\ url = "/scrape" THEN 202
    ELSE 404
InitApi ==
    /\ Loaded({"api_server"}, {NoFile}, {FALSE}, {FALSE})
    /\ ~isInitial
    /\ NoProbe
\* the server calls the handler for a request
apiReceive ==
    /\ variant = "api_server"
    /\ pc = "listening"
    /\ request = NoRequest \/ responses # <<>>
    /\ requests <= MaxRequests
    /\ requests' = requests + 1
    /\ \E method \in Methods, path \in Paths, query \in Queries :
         request' = [method |-> method, path |-> path, query |-> query]
    /\ responses' = <<>>
    /\ UNCHANGED <<variant, isInitial, TEST_PAGINATION, bucketName, lastRunAtStart,
                   thresholdDate, pc2, results2, sigterm, probe, files, pageState,
                   siteState, navState, collected, trail, clock, pc, currentPage,
                   retryCount, browser, exitStatus>>
\* the handler: res.writeHead(status), res.end(body), return
apiHandle ==
    /\ variant = "api_server"
    /\ request # NoRequest
    /\ responses = <<>>
    /\ responses' = Append(responses, StatusFor(request.method, UrlOf(request)))
    /\ UNCHANGED <<variant, isInitial, TEST_PAGINATION, bucketName, lastRunAtStart,
                   thresholdDate, requests, pc2, results2, sigterm, probe, request, files,
                   pageState, siteState, navState, collected, trail, clock, pc,
                   currentPage, retryCount, browser, exitStatus>>
ApiStep == apiReceive \/ apiHandle
SpecApi == InitApi /\ [][ApiStep]_vars
\* ------------------------------------------------------------------- claims
\* the positions inside the pagination loop
InLoop == pc \in {"page", "nav", "check", "items", "decide"}
\* the listing pages of site s requested so far in this attempt
PagesRequested(s) == { navLog[i][2] : i \in { j \in 1..Len(navLog) : navLog[j][1] = s } }

C2_StopsWhenNothingPushed ==
    [][~isInitial =>
         /\ (pc = "decide" /\ pushedCount = 0) => stop' = "no-new-content"
         /\ (pc = "decide" /\ pushedCount > 0) => (stop' = stop /\ pc' = "page")
         /\ (stop' = "no-new-content" /\ stop # "no-new-content")
               => (pc = "decide" /\ pushedCount = 0)]_vars
\* a non-initial run stopped by a page whose only candidate was admissible
\* and unseen, and older than thresholdDate
C2_Witness ==
    /\ ~isInitial
    /\ stop = "no-new-content"
    /\ admittedCount > 0
    /\ pushedCount = 0
\* C2 as the specification states it: the stop happens only when no candidate
\* of the page passed the area filter and the dedup
C2_StopsOnlyWhenNoneAdmitted ==
    (~isInitial /\ stop = "no-new-content") => admittedCount = 0

\* C3: in initial mode a page with raw candidates and no admitted record does
\* not stop the pagination.
C3_InitialContinues ==
    (isInitial /\ admittedCount = 0) => stop # "no-new-content"

\* C4: in a scraping run a failed navigation to page N ends the pagination
\* with page-load-failure, and no page after N is requested.
C4_LoadFailureIsTerminal ==
    (~TEST_PAGINATION /\ failedAt # None) =>
        /\ stop = "page-load-failure"
        /\ ~InLoop
        /\ \A n \in PagesRequested(failedAt[1]) : n <= failedAt[2]

\* C5: the listing pages a scraping run requests from one start URL are at
\* most the ceiling of its mode, 15 in initial mode and 3 otherwise.
C5_PageCeiling ==
    ~TEST_PAGINATION =>
        \A s \in 1..NumSites : Cardinality(PagesRequested(s)) <= maxPages

\* C6: no two records of the result set carry the same url.
C6_UniqueUrls ==
    \A i, j \in 1..Len(results) :
        (i < j /\ results[i].url # "") => results[i].url # results[j].url

\* C7: once the seen-set is seeded from the prior results.csv, no candidate
\* equal to a line of that file is pushed again.
PriorRows == { PriorCsv[i] : i \in 2..Len(PriorCsv) }
C7_SeededRejects ==
    (SeededKeys(PriorCsv) \subseteq seenKeys) =>
        \A i \in 1..Len(results) : CsvRow(results[i]) \notin PriorRows

\* C8: lastRun.json is written only after results.csv was written and, where
\* a bucket is configured, uploaded.
C8_CheckpointAfterUpload ==
    metaWritten => (csvWritten /\ ~uploadFailed)

\* C9: when the browser cannot be launched, the caller is told of an error
\* and lastRun.json is unchanged.
C9_LaunchFailureReported ==
    (pc = "done" /\ navLog = <<>> /\ (variant = "server" => attempts = maxAttempts)) =>
        (exitStatus = "error" /\ lastRun = lastRunAtStart)

\* C10: a safeNavigate call whose attempts all fail in navigation (an error of
\* page.goto, no response, a status >= 400, a blocked page) calls page.goto
\* exactly maxAttempts times and then returns false; before that it has called
\* page.goto once per failed attempt and has not returned false.
C10_ExactlyMaxAttempts ==
    (variant = "server" /\ ~otherFailure) =>
        /\ (pc = "nav" => (gotoCalls = attempts /\ attempts < maxAttempts))
        /\ (pc = "endsite" /\ stop = "page-load-failure")
              => (gotoCalls = maxAttempts /\ attempts = maxAttempts)
\* safeNavigate returned false after failures in navigation only
C10_Witness ==
    /\ variant = "server"
    /\ pc = "endsite"
    /\ stop = "page-load-failure"
    /\ ~otherFailure
    /\ gotoCalls = maxAttempts

\* C11: in safeNavigate, whenever page.goto is called after an attempt met a
\* bot detection, the cookies and the cache of the browser were cleared
\* between the detection and that call.
C11_RotatesBeforeRetry ==
    [][(pc = "nav" /\ blockedPending /\ gotoCalls' = gotoCalls + 1)
          => clearCalls' = clearCalls + 1]_vars
\* a call whose attempt was blocked and which has called page.goto again
C11_Witness ==
    /\ variant = "server"
    /\ pc = "nav"
    /\ rotatedAfterBlock
    /\ clearCalls > 0

\* C12: the backoff times one safeNavigate call waits are strictly
\* increasing, whatever the jitter.
C12_BackoffIncreases ==
    \A i, j \in 1..Len(backoffs) : i < j => backoffs[i] < backoffs[j]
\* the largest jitter after the first failure, the smallest after the second
C12_Witness ==
    /\ pc = "nav"
    /\ Len(backoffs) = 2
    /\ backoffs[1] = BackoffBase * 2 + JitterRange - 1
    /\ backoffs[2] = BackoffBase * 4

\* C13: while a run processes candidates, thresholdDate is the lastRun that
\* lastRun.json held when that run started.
C13_ThresholdFromCheckpointAtRunStart ==
    (pc = "items" /\ ValidFile(lastRunAtStart)) => thresholdDate = lastRunAtStart

\* C14: thresholdDate is two months before the start in initial mode,
\* whatever lastRun.json holds, and the lastRun of a valid lastRun.json in
\* update mode.
C14_ThresholdByMode ==
    pc = "items" =>
        /\ isInitial => thresholdDate = Lookback(Now0)
        /\ (~isInitial /\ ValidFile(lastRunAtStart)) => thresholdDate = lastRunAtStart

\* C15: with a lastRun.json that is missing, unparseable or holds no date, the
\* load of the module does not throw and thresholdDate is two months before
\* the start.
C15_BadCheckpointFallsBack ==
    ~ValidFile(lastRunAtStart) =>
        /\ ~LoadThrows(variant, isInitial, lastRunAtStart)
        /\ thresholdDate = Lookback(Now0)

\* the date a written record was resolved to: the crawler stores it, the
\* other variants parse the listed text at the time of the run
ResolvedListedAt(r) ==
    IF variant = "crawlee" THEN r.listedDate ELSE listedDate(r, Now0)
\* C16: every record written to results.csv has a resolved listed date, and
\* that date is not before thresholdDate.
C16_EmittedAreFresh ==
    \A i \in 1..Len(emitted) :
        /\ ResolvedListedAt(emitted[i]) # NoDate
        /\ ResolvedListedAt(emitted[i]) >= thresholdDate

\* C17: every record collected or written has an area of at least
\* MIN_AREA_SQFT, and no detail page is requested for a candidate whose area
\* is null or smaller.
C17_AreaAdmissible ==
    /\ \A i \in 1..Len(results) :
          results[i].area # 0 /\ results[i].area >= MIN_AREA_SQFT
    /\ \A i \in 1..Len(emitted) :
          emitted[i].area # 0 /\ emitted[i].area >= MIN_AREA_SQFT
    /\ \A item \in detailFetched : item.area # 0 /\ item.area >= MIN_AREA_SQFT
\* a page whose candidates, all of them listed five hours ago, were all turned
\* away by the area filter: nothing is seen, collected or fetched
C17_Witness ==
    /\ pc \in {"decide", "next"}
    /\ navLog # <<>>
    /\ rawLeft = 0
    /\ seenKeys = {}
    /\ results = <<>>
    /\ detailFetched = {}
    /\ detailQueue = <<>>

\* C18: the item loop of a page is left only towards the stop decision of
\* that page, whatever the detail pages do.
C18_DetailFailureTolerated ==
    [][(pc = "items" /\ pc' # "items") => pc' = "decide"]_vars

\* C19: a scraping run whose pagination ended on a page that failed to load
\* ends without an error and has written the records it had collected.
C19_SavedAfterLoadFailure ==
    (pc = "done" /\ stop = "page-load-failure" /\ ~TEST_PAGINATION /\ results # <<>>)
        => (exitStatus = "ok" /\ csvWritten)

\* C20: when the stop decision of a page is taken, no detail request for a
\* record of that page is still waiting.
C20_DetailsBeforeDecision ==
    pc \in {"decide", "next"} => detailQueue = <<>>

\* C21: while the next candidate is processed, when the stop decision of the
\* page is taken and when the run has ended, no detail page opened for an
\* earlier candidate is still open, whether its visit succeeded or failed.
C21_DetailHandlesClosed ==
    (pc \in {"items", "decide"} \/ (pc = "done" /\ exitStatus = "ok")) => detailOpen = 0

\* the run of the first request has started and has not returned
Running1 == variant = "server" /\ pc # "done"
\* the run of the second request has started and has not returned
Running2 == pc2 \notin {"none", "answered"}
\* C22: the runs of two requests are never in progress at the same time, so
\* results.csv and lastRun.json have one writer at a time.
C22_OneRunAtATime ==
    ~(Running1 /\ Running2)

\* the requests among the first i of navLog that went to the start URL of
\* the i-th
RequestsOfSiteUpTo(i) == Cardinality({ j \in 1..i : navLog[j][1] = navLog[i][1] })
KeysOf(items) == { KeyOf(variant, items[i]) : i \in 1..Len(items) }
Identity(item) ==
    IF item.url # "" THEN <<item.url>>
    ELSE <<item.title, item.location, item.area, item.price, item.listed>>
\* C25: after one pass the deduplicator has admitted one candidate for every
\* identity of the sequence, the url where there is one and the composite of
\* title, location, area, price and listed text otherwise, and no two
\* candidates of one identity.
C25_IdentityKey ==
    pass >= 2 =>
        /\ { Identity(kept1[i]) : i \in 1..Len(kept1) }
              = { Identity(feed[i]) : i \in 1..Len(feed) }
        /\ \A i, j \in 1..Len(kept1) : i < j => Identity(kept1[i]) # Identity(kept1[j])

\* C26: downloadExistingCSV always returns to the run, which goes on to its
\* first page; when no bucket is configured, the bucket holds no results.csv,
\* the download fails or the file holds no record, the set of seen keys is
\* empty when the pagination starts.
C26_SeedFailureTolerated ==
    [][pc = "seed" =>
         /\ pc' = "page"
         /\ exitStatus' = "running"
         /\ seenKeys' \subseteq SeededKeys(PriorCsv)
         /\ (~bucketName \/ bucketCsv \in {NoCsv, GarbledCsv} \/ localCsv' # bucketCsv)
               => seenKeys' = {}]_vars
\* a run about to request its first page after it downloaded a results.csv
\* that holds no record
C26_Witness ==
    /\ variant \in ModeCeiling
    /\ pc = "page"
    /\ navLog = <<>>
    /\ bucketName
    /\ localCsv = GarbledCsv
    /\ seenKeys = {}

\* the records of a sequence that carry the date d, in their order
OfDate(rs, d) == SelectSeq(rs, LAMBDA r : r.listedDate = d)
\* results was left alone or got one record at its end
AppendedOrSame == results' = results \/ (results' # <<>> /\ results' = Append(results, results'[Len(results')]))
Range(items) == { items[i] : i \in 1..Len(items) }
\* C28: of one sequence of candidates, those judged fresh under a threshold
\* are all judged fresh under an earlier threshold.
C28_EarlierThresholdKeepsFresh ==
    (pass = 3 /\ earlier <= thresholdDate) => Range(kept2) \subseteq Range(kept1)
\* a sequence of which the earlier threshold keeps more than the later one,
\* and the later one keeps some
C28_Witness ==
    /\ pass = 3
    /\ earlier < thresholdDate
    /\ kept2 # <<>>
    /\ Len(kept1) > Len(kept2)

\* C29: a run is cancelled by the termination signal at a page boundary: the
\* page in progress when the signal arrives is processed to its end, and no
\* listing page is requested after the signal.
C29_CancelledAtPageBoundary ==
    [][sigterm => Len(navLog') <= Len(navLog)]_vars

\* the date a number of calendar months before t: the same day of the month
\* and time of day where that month has such a day, and otherwise as many
\* days into the following month as the day lies past the month's end
MonthsBefore(t, months) ==
    LET total == getFullYear(t) * 12 + getMonth(t) - months
        y == total \div 12
        m == total % 12
        d == getDate(t)
    IN IF d <= DaysInMonth(y, m)
       THEN MakeTime(y, m, d, 0, 0) + TimeWithinDay(t)
       ELSE MakeTime(y, m + 1, d - DaysInMonth(y, m), 0, 0) + TimeWithinDay(t)
\* C30: for "<n> <unit>s ago" parseRelativeTime returns the base date less n
\* minutes or hours, less exactly n days or 7n days, or n calendar months or
\* years before it; for every other text it returns null.
C30_ParseRelativeTime ==
    pass = 3 =>
        parsed =
            IF relative.k # "rel" \/ relative.unit \notin AgoUnits THEN NoDate
            ELSE CASE relative.unit = "minute" -> baseDate - relative.n
                   [] relative.unit = "hour" -> baseDate - 60 * relative.n
                   [] relative.unit = "day" -> baseDate - 1440 * relative.n
                   [] relative.unit = "week" -> baseDate - 7 * 1440 * relative.n
                   [] relative.unit = "month" -> MonthsBefore(baseDate, relative.n)
                   [] relative.unit = "year" -> MonthsBefore(baseDate, 12 * relative.n)
\* "2 months ago" on 31 March is 31 January, 59 days earlier
C30_Witness ==
    /\ pass = 3
    /\ relative = Rel(2, "month")
    /\ baseDate = MakeTime(2025, 2, 31, 10, 30)
    /\ parsed = MakeTime(2025, 0, 31, 10, 30)
    /\ parsed = baseDate - 59 * 1440

\* the request has been answered
Answered == request # NoRequest /\ responses # <<>>
\* the routes the server documents, by method and request target
RouteStatus(method, target) ==
    CASE method = "GET" /\ target \in {"/", "/health", "/version"} -> 200
      [] method = "POST" /\ target = "/scrape" -> 202
      [] OTHER -> 404
\* C31 (as amended): an answered request has exactly one response; its status is
\* that of the route matching the method and the whole request target (path
\* and query string), 404 if none matches; answering starts no scrape.
C31_OneResponsePerTarget ==
    /\ Len(responses) <= 1
    /\ Answered => responses[1] = RouteStatus(request.method, UrlOf(request))
    /\ variant = "api_server" => pc = "listening" /\ ~browser /\ navLog = <<>>
\* C31 witness: POST /scrape was answered 202 and no scrape began
C31_Witness ==
    /\ variant = "api_server" /\ Answered
    /\ request.method = "POST" /\ UrlOf(request) = "/scrape"
    /\ responses = <<202>> /\ pc = "listening"
\* C31 as stated: the status depends only on the method and the path
C31_StatusByPathOnly ==
    Answered => responses[1] = RouteStatus(request.method, request.path)

\* C32: the checkpoint a run saves is not later than the time at which that
\* run began scanning (the clock does not move between the launch and the
\* write of lastRun.json, so the clock before the write is the scan's start).
C32_CheckpointNotAfterScanStart == [][pc = "meta" => lastRun' <= clock]_vars

\* the lines of a results.csv after its header are pairwise different
NoRowTwice(csv) == \A i, j \in 2..Len(csv) : csv[i] = csv[j] => i = j
C34_AtMostMaxRetriesAttempts ==
    /\ [](variant = "retrying" =>
            /\ retryCount <= MAX_RETRIES
            /\ (pc # "done" => retryCount < MAX_RETRIES)
            /\ (pc = "done" /\ exitStatus = "ok" => retryCount < MAX_RETRIES)
            /\ (pc = "done" /\ exitStatus = "error" /\ navLog # <<>>
                    => retryCount = MAX_RETRIES))
    /\ [][variant = "retrying" /\ pc = "done" => pc' = "done"]_vars
\* C34 witness: the third attempt has failed and the run has ended in an error
C34_Witness ==
    /\ variant = "retrying" /\ retryCount = MAX_RETRIES
    /\ pc = "done" /\ exitStatus = "error" /\ ~browser

\* C35: when an attempt has ended, by returning or by throwing, the browser
\* it launched is closed.
C35_BrowserClosedAfterAttempt == pc = "done" => ~browser

\* C36: in the multi-site variants a step that writes results.csv or moves
\* the checkpoint belongs to a run that is not in test mode and has admitted
\* at least one record; a run with no record changes neither.
C36_EmptyRunWritesNothing ==
    [][(variant \in MultiSite) /\ (localCsv' # localCsv \/ lastRun' # lastRun)
          => ~TEST_PAGINATION /\ results # <<>>]_vars
\* C36 witness: a multi-site run outside test mode has visited pages, admitted
\* nothing and returned; no file was written and the checkpoint is the old one
C36_Witness ==
    /\ variant \in MultiSite /\ ~TEST_PAGINATION
    /\ pc = "done" /\ exitStatus = "ok" /\ stop \notin {"none", "listing-error"}
    /\ navLog # <<>> /\ results = <<>>
    /\ ~csvWritten /\ ~metaWritten
    /\ localCsv = NoCsv /\ lastRun = lastRunAtStart

\* the step goes on to the next entry of START_URLS
NextSiteStarts == site' = site + 1 /\ pc' = "page"
\* C37 (as amended): the start URLs are tried in list order and, outside
\* pagination-test mode, the run goes on to the next one only if the present
\* one found no listing elements or its processing ended in an exception
\* caught by catch (siteError).
C37_LaterSiteAfterFruitlessOrFailedSite ==
    [][(variant \in MultiSite) =>
          /\ (site' # site => site' = site + 1 \/ site' = 1)
          /\ (~TEST_PAGINATION /\ NextSiteStarts
                 => ~pageFoundResults \/ pc = "sitecatch")]_vars
\* C37 witness: outside test mode the first start URL found listing elements,
\* its pagination ended, and the run went on to save without another site
C37_Witness ==
    /\ variant \in MultiSite /\ ~TEST_PAGINATION
    /\ pc = "save" /\ successful /\ pageFoundResults /\ site = 2
    /\ navLog # <<>> /\ \A i \in 1..Len(navLog) : navLog[i][1] = 1
\* C37 as stated: outside test mode a later site is visited only if the
\* earlier site found no listing elements
C37_LaterSiteOnlyAfterFruitlessSites ==
    [][(variant \in MultiSite) /\ ~TEST_PAGINATION /\ NextSiteStarts
          => ~pageFoundResults]_vars

C39_EveryRunTerminates == <>(pc = "done")
====
